---- MODULE Spec2Model ----
(***************************************************************************)
(* Coupon service (kkkkikiki/coupon): the deterministic code generator,    *)
(* the campaign creation transaction and the reservation / issuance        *)
(* transaction (SELECT ... FOR UPDATE SKIP LOCKED) over a PostgreSQL       *)
(* store running at READ COMMITTED.                                        *)
(*                                                                         *)
(* The store is modelled as committed tables plus, per caller, the         *)
(* uncommitted work of its open transaction (inserted rows, row locks,     *)
(* pending updates).  One caller slot runs one RPC at a time; a step of a  *)
(* handler is one statement on the store together with the local           *)
(* computation that leads up to it.                                        *)
(***************************************************************************)
EXTENDS Integers, Sequences, FiniteSets, TLC

\* ------------------------------------------------------------------ bounds
\* concurrent request-handling goroutines
NCallers == 2
\* total number of RPCs started in one behaviour
MaxCalls == 4
\* largest availableCoupons a request asks for
MaxCoupons == 2
\* the clock runs 0..MaxTime
MaxTime == 1
\* number of modelled block-cipher tables (crypto/aes is an external library)
NCiphers == 2
\* campaigns_id_seq values handed out in one behaviour
MaxCampaigns == 2
\* storage failures and request cancellations injected in one behaviour
MaxFaults == 1

Callers == 1..NCallers
\* (availableCoupons, startDate) of the CreateCampaign requests: a negative
\* and a zero count (int32, nothing in the handler rejects them), the latter
\* for a campaign that starts only when the clock reaches MaxTime, as does a
\* campaign of one coupon, and a campaign of MaxCoupons coupons whose start
\* date has passed at time 0
CreateRequests == { <<-1, 0>>, <<0, MaxTime>>, <<1, MaxTime>>, <<MaxCoupons, 0>> }

\* ------------------------------------------------------------------ state
VARIABLES
    cipher,       \* per campaign id: the table AES is under that campaign's
                  \* key, fixed at its first use (-1: not used so far)
    now,          \* the clock read by time.Now() and by the store
    campaigns,    \* committed rows of table campaigns
    coupons,      \* committed rows of table coupons
    idSeq,        \* campaigns_id_seq (BIGSERIAL): last value handed out
    pc,           \* per caller: the next statement of its handler
    req,          \* per caller: the request message
    campaign,     \* per caller: local variable campaign (model.Campaign)
    couponCodes,  \* per caller: local variable couponCodes (CreateCampaign)
    couponCode,   \* per caller: local variable couponCode (IssueCoupon)
    batch,        \* per caller: loop state of CreatePregeneratedCoupons
    tx,           \* per caller: its sqlx.Tx and the uncommitted work in it
    ctxDone,      \* per caller: the request context has been cancelled
    out,          \* per caller: the response on its way to the client
    calls,        \* number of calls started so far
    faults,       \* number of failures injected so far
    attempts,     \* history, per campaign id: IssueCoupon calls that passed
                  \* the existence and start-time checks
    exhausted,    \* history, per campaign id: calls answered ResourceExhausted
    handedOut,    \* history: bag of the <<campaign id, code>> pairs that
                  \* successful IssueCoupon calls returned
    afterExhaustion, \* history, per caller: its IssueCoupon call began its
                  \* transaction after a call on the same campaign had been
                  \* answered ResourceExhausted
    listed,       \* history, per campaign id: the lists of issued codes
                  \* that successful GetCampaign calls on it returned, in
                  \* the order of the calls
    gen           \* the code generator on its own: the inputs of an
                  \* evaluation of generateSecureCoupon and what it returned

vars == << cipher, now, campaigns, coupons, idSeq, pc, req, campaign,
           couponCodes, couponCode, batch, tx, ctxDone, out, calls, faults,
           attempts, exhausted, handedOut, afterExhaustion, listed, gen >>

\* the store's committed state and the history
history == << attempts, exhausted, handedOut, afterExhaustion, listed >>

\* ------------------------------------------------- code generator (pure)
\* digits := []rune("0123456789")
digits == 10
\* hanguls := 28 syllables
hanguls == 28
\* pool := append(digits, hanguls...); base := uint64(len(pool))
base == digits + hanguls
\* body := make([]rune, 8)
bodyLen == 8
\* batchSize := 1000
batchSize == 1000

RECURSIVE XorBits(_, _, _)
\* bitwise XOR of two naturals below 2^n
XorBits(a, b, n) ==
    IF n = 0 THEN 0
    ELSE ((a + b) % 2) + 2 * XorBits(a \div 2, b \div 2, n - 1)

RECURSIVE Pow2(_)
Pow2(n) == IF n = 0 THEN 1 ELSE 2 * Pow2(n - 1)

\* big-endian bytes of a 32-bit word
BE32(w) == << (w \div 16777216) % 256, (w \div 65536) % 256,
              (w \div 256) % 256, w % 256 >>

RECURSIVE OrBits(_, _, _)
\* bitwise OR of two naturals below 2^n
OrBits(a, b, n) ==
    IF n = 0 THEN 0
    ELSE (IF a % 2 = 1 \/ b % 2 = 1 THEN 1 ELSE 0)
         + 2 * OrBits(a \div 2, b \div 2, n - 1)

\* A 64-bit integer (int64 in two's complement, or uint64) is the sequence
\* of its 8 bytes, most significant first.  W64(n) is the one of value n,
\* for 0 <= n < 2^31: campaign.ID as the store returned it, and uint64(i).
W64(n) == <<0, 0, 0, 0>> \o BE32(n)

\* uint64(campaignID): the same 64 bits
campaignIDToSequence(campaignID) == campaignID

\* (campaignSeq << 32) | couponIndex: the shift drops the upper 32 bits of
\* campaignSeq and moves its lower 32 bits up, the OR is over all 64 bits of
\* couponIndex
createUniqueSequence(campaignID, couponIndex) ==
    LET campaignSeq == campaignIDToSequence(campaignID)
        shifted     == SubSeq(campaignSeq, 5, 8) \o <<0, 0, 0, 0>>
    IN  [k \in 1..8 |-> OrBits(shifted[k], couponIndex[k], 8)]

\* generateCampaignKey seeded with the clock as well as the campaign id
generateCampaignKeySeeded(campaignID) ==
    LET hash == campaignIDToSequence(campaignID)
        low  == hash[7] * 256 + hash[8] + now
    IN  [k \in 1..16 |->
            XorBits((low \div Pow2((k - 1) % 8)) % 256, (k - 1) * 7, 8)]

\* key[i] = byte((hash >> (i % 8)) ^ uint64(i*7)), i = 0..15 (1-based here):
\* a shift by at most 7 followed by byte() reaches the low 15 bits of hash
generateCampaignKey(campaignID) ==
    LET hash == campaignIDToSequence(campaignID)
        low  == hash[7] * 256 + hash[8]
    IN  [k \in 1..16 |->
            XorBits((low \div Pow2((k - 1) % 8)) % 256, (k - 1) * 7, 8)]

\* binary.BigEndian.PutUint64(plain[8:], seq): upper 64 bits zero
Plain(seq) == <<0, 0, 0, 0, 0, 0, 0, 0>> \o seq

\* A 16-byte cipher block of the modelled tables.
Block(b0, b1, tail) == <<b0, b1, 0, 0, 0, 0, 0, 0>> \o tail

\* crypto/aes is not part of the repository: for each key, block.Encrypt is
\* modelled as one of NCiphers tables, each injective.  Table 0 gives distinct
\* codes everywhere; the other tables give blocks that differ only in what
\* the mod-10 / mod-28 reductions throw away for indices 0 and 1, so their
\* codes collide inside one pool and across campaigns.  Within the bounds the
\* key is determined by key[1] and the plaintext by its last byte.
Encrypt(table, key, plain) ==
    LET k == key[1]
        x == plain[16]
    IN  IF table = 0
        THEN Block(k % 256, x % 256, <<0, 0, 0, 0, 0, 0, k % 256, x % 256>>)
        ELSE Block((10 * k + table) % 256, (28 * (x % 2) + (x \div 2)) % 256,
                   <<0, 0, 0, 0, 0, 0, 0, table>>)

RECURSIVE DivMod(_, _, _, _)
\* long division of a big-endian byte string by d: quotient bytes and remainder
DivMod(bytes, d, k, rem) ==
    IF k > Len(bytes) THEN [q |-> <<>>, r |-> rem]
    ELSE LET cur  == rem * 256 + bytes[k]
             rest == DivMod(bytes, d, k + 1, cur % d)
         IN  [q |-> <<cur \div d>> \o rest.q, r |-> rest.r]

RECURSIVE BodyLeastFirst(_, _)
\* Body with the digits stored from body[0] upwards
BodyLeastFirst(v, n) ==
    IF n = 0 THEN <<>>
    ELSE LET dm == DivMod(v, base, 1, 0)
         IN  <<dm.r>> \o BodyLeastFirst(dm.q, n - 1)

RECURSIVE Body(_, _)
\* for i := 7; i >= 0; i-- { body[i] = pool[v%base]; v /= base }
Body(v, n) ==
    IF n = 0 THEN <<>>
    ELSE LET dm == DivMod(v, base, 1, 0)
         IN  Append(Body(dm.q, n - 1), dm.r)

\* CodeOf with the syllable index reduced modulo len(pool), not len(hanguls)
CodeOfWideSyllable(ct) ==
    <<ct[1] % 10, digits + (ct[2] % base)>> \o Body(SubSeq(ct, 9, 16), bodyLen)

\* digit, hang and body from the cipher block, assembled: a code is the
\* sequence of its symbols, each an index into pool (0..9 digits, 10..37
\* syllables)
CodeOf(ct) ==
    LET digit == ct[1] % 10
        hang  == digits + (ct[2] % hanguls)
        v     == SubSeq(ct, 9, 16)
    IN  <<digit, hang>> \o Body(v, bodyLen)

generateSecureCoupon(table, campaignID, couponIndex) ==
    LET seq == createUniqueSequence(campaignID, couponIndex)
        key == generateCampaignKey(campaignID)
    IN  CodeOf(Encrypt(table, key, Plain(seq)))

\* values of local variables that hold nothing
NoReq == [op |-> "none", campaign_id |-> 0, available_coupons |-> 0, start_date |-> 0]
\* model.Campaign without CreatedAt and UpdatedAt: the handlers write them
\* once and never read them
NoCampaign == [id |-> 0, available_coupons |-> 0, start_date |-> 0]
NoCode == <<>>
NoTx == [open |-> FALSE, start |-> 0, campaigns |-> {}, coupons |-> {},
         locked |-> {}, updates |-> {}]
NoProto == [id |-> 0, available_coupons |-> 0, start_date |-> 0]
NoResp == [err |-> "none", msg |-> "", codes |-> <<>>, body |-> NoProto,
           recorded |-> <<>>]
NoBatch == [i |-> 0, created_at |-> 0]
\* issued_at IS NULL: the column is nullable, and no time is negative
NullTime == -1
\* the generator has not been evaluated
NoGen == [campaignID |-> 0, couponIndex |-> 0, table |-> 0, ct |-> <<>>,
          code |-> <<>>, at |-> 0, again |-> <<>>, againAt |-> 0,
          packed |-> <<>>, other |-> <<>>, keys |-> <<>>, bodies |-> <<>>,
          bulk |-> <<>>]

\* the caller's transaction just begun: BEGIN fixes the store's NOW()
OpenTx == [NoTx EXCEPT !.open = TRUE, !.start = now]

\* ApplyUpdates of an UPDATE whose WHERE clause lost the code = $2 condition:
\* every available row takes the update
ApplyUpdatesToAll(rows, updates) ==
    { IF updates # {} /\ r.status = "available"
      THEN LET u == CHOOSE u \in updates : TRUE
           IN  [r EXCEPT !.status = u.status, !.issued_at = u.issued_at]
      ELSE r : r \in rows }

\* rows of table coupons with the pending updates of a transaction applied
ApplyUpdates(rows, updates) ==
    { IF \E u \in updates : u.code = r.code
      THEN LET u == CHOOSE u \in updates : u.code = r.code
           IN  [r EXCEPT !.status = u.status, !.issued_at = u.issued_at]
      ELSE r : r \in rows }

\* rows of table coupons as transaction p sees them (READ COMMITTED): the
\* committed rows with p's own pending updates applied, plus p's own inserts
VisibleCoupons(p) == ApplyUpdates(coupons, tx[p].updates) \cup tx[p].coupons

\* codes row-locked (FOR UPDATE) by a transaction other than p's
LockedByOthers(p) == UNION { tx[q].locked : q \in Callers \ {p} }

\* codes inserted, not yet committed, by a transaction other than p's
InsertedByOthers(p) ==
    { r.code : r \in UNION { tx[q].coupons : q \in Callers \ {p} } }

Init ==
    /\ cipher = [id \in 1..MaxCampaigns |-> -1]
    /\ now = 0
    /\ campaigns = {}
    /\ coupons = {}
    /\ idSeq = 0
    /\ pc = [p \in Callers |-> "idle"]
    /\ req = [p \in Callers |-> NoReq]
    /\ campaign = [p \in Callers |-> NoCampaign]
    /\ couponCodes = [p \in Callers |-> <<>>]
    /\ couponCode = [p \in Callers |-> NoCode]
    /\ batch = [p \in Callers |-> NoBatch]
    /\ tx = [p \in Callers |-> NoTx]
    /\ ctxDone = [p \in Callers |-> FALSE]
    /\ out = [p \in Callers |-> NoResp]
    /\ calls = 0
    /\ faults = 0
    /\ attempts = [id \in 1..MaxCampaigns |-> 0]
    /\ exhausted = [id \in 1..MaxCampaigns |-> 0]
    /\ handedOut = << >>
    /\ afterExhaustion = [p \in Callers |-> FALSE]
    /\ listed = [id \in 1..MaxCampaigns |-> <<>>]
    /\ gen = NoGen

\* ----------------------------------------------------- call entry and exit
\* Caller slots are anonymous goroutines: a new call takes the lowest idle one.
FreeSlot(p) == pc[p] = "idle" /\ \A q \in Callers : q < p => pc[q] # "idle"

\* no response is waiting to be handed over
Quiet == \A p \in Callers : pc[p] # "done"

\* A handler is entered with request r.
Enter(p, r) ==
    /\ Quiet
    /\ FreeSlot(p)
    /\ calls < MaxCalls
    /\ calls' = calls + 1
    /\ req' = [req EXCEPT ![p] = r]

\* Rollback that discards the uncommitted work and ends the transaction but
\* leaves its row locks in place
RollbackKeepsLocks(p) ==
    [tx EXCEPT ![p] = [NoTx EXCEPT !.locked = tx[p].locked]]

\* Rollback as it would be without the deferred call: the transaction is
\* left as it is
RollbackMissing(p) == tx

\* tx.Rollback(): whatever the transaction holds uncommitted is discarded and
\* its row locks are released (a no-op once the transaction is over)
Rollback(p) == [tx EXCEPT ![p] = NoTx]

\* RecordIssueCouponDuration called on the success path only, not deferred
RecordOnSuccessOnly(op, result) ==
    IF op = "IssueCoupon" /\ result = "success" THEN <<result>> ELSE <<>>

\* the observations a call has made when it returns: IssueCoupon defers one
\* metrics.RecordIssueCouponDuration(result, duration), the other handlers
\* record nothing
RecordIssueCouponDuration(op, result) ==
    IF op = "IssueCoupon" THEN <<result>> ELSE <<>>

\* The handler returns: the response is on its way and the locals go out of
\* scope.
Return(p, err, msg, codes, body, recorded) ==
    /\ out' = [out EXCEPT ![p] =
                  [err |-> err, msg |-> msg, codes |-> codes, body |-> body,
                   recorded |-> recorded]]
    /\ pc' = [pc EXCEPT ![p] = "done"]
    /\ campaign' = [campaign EXCEPT ![p] = NoCampaign]
    /\ couponCodes' = [couponCodes EXCEPT ![p] = <<>>]
    /\ couponCode' = [couponCode EXCEPT ![p] = NoCode]
    /\ batch' = [batch EXCEPT ![p] = NoBatch]
    /\ ctxDone' = [ctxDone EXCEPT ![p] = FALSE]

\* an error return from a step after the entry step; the deferred
\* tx.Rollback() runs on the way out
Fail(p, err, msg) ==
    /\ Return(p, err, msg, <<>>, NoProto,
              RecordIssueCouponDuration(req[p].op, "failed"))
    /\ tx' = Rollback(p)
    /\ UNCHANGED << gen, cipher, now, campaigns, coupons, idSeq, req, calls >>

\* an error return from within the entry step of a call with request r
FailAtEntry(p, r, err, msg) ==
    /\ Enter(p, r)
    /\ Return(p, err, msg, <<>>, NoProto,
              RecordIssueCouponDuration(r.op, "failed"))
    /\ tx' = Rollback(p)
    /\ UNCHANGED << gen, cipher, now, campaigns, coupons >>

\* The client has the response: the goroutine is gone.  A finished handler
\* takes no further part in anything, so the hand-over is taken before any
\* other step (every other action waits for Quiet).
Deliver(p) ==
    /\ pc[p] = "done"
    /\ pc' = [pc EXCEPT ![p] = "idle"]
    /\ req' = [req EXCEPT ![p] = NoReq]
    /\ out' = [out EXCEPT ![p] = NoResp]
    /\ afterExhaustion' = [afterExhaustion EXCEPT ![p] = FALSE]
    /\ UNCHANGED << gen, cipher, now, campaigns, coupons, idSeq, campaign,
                    couponCodes, couponCode, batch, tx, ctxDone, calls,
                    faults, attempts, exhausted, handedOut, listed >>

\* the store fails a statement (connection loss, deadlock victim, ...)
Fault ==
    /\ faults < MaxFaults
    /\ faults' = faults + 1

\* a statement fails: the handler returns an Internal error
StorageError(p, msg) ==
    /\ Fault
    /\ Fail(p, "Internal", msg)
    /\ UNCHANGED history

\* a statement, or the commit, on a transaction that the cancelled context
\* has already rolled back fails: the handler returns an Internal error
TxDone(p, msg) ==
    /\ ~tx[p].open
    /\ Fail(p, "Internal", msg)
    /\ UNCHANGED << faults, history >>

\* a statement, or the commit, of the open transaction fails
TxError(p, msg) ==
    /\ tx[p].open
    /\ StorageError(p, msg)

\* the protobuf Campaign built from a model.Campaign
Proto(c) == [id |-> c.id, available_coupons |-> c.available_coupons,
             start_date |-> c.start_date]

\* time passes
Tick ==
    /\ Quiet
    /\ now < MaxTime
    /\ now' = now + 1
    /\ UNCHANGED << gen, cipher, campaigns, coupons, idSeq, pc, req, campaign,
                    couponCodes, couponCode, batch, tx, ctxDone, out, calls,
                    faults, history >>

\* The request context is cancelled (client timeout or disconnect) while a
\* handler that passed ctx to BeginTxx runs: database/sql rolls the
\* transaction back, and every later statement on it fails.
Cancel(p) ==
    /\ Quiet
    /\ pc[p] \in {"issue_reserve", "issue_mark", "issue_commit",
                  "create_coupons", "create_commit"}
    /\ ~ctxDone[p]
    /\ Fault
    /\ ctxDone' = [ctxDone EXCEPT ![p] = TRUE]
    /\ tx' = Rollback(p)
    /\ UNCHANGED << gen, cipher, now, campaigns, coupons, idSeq, pc, req, campaign,
                    couponCodes, couponCode, batch, out, calls, history >>

\* --------------------------------------------------------- CreateCampaign
CreateReq(n, sd) == [op |-> "CreateCampaign", campaign_id |-> 0,
                     available_coupons |-> n, start_date |-> sd]

\* a model.Campaign as the INSERT INTO campaigns ... RETURNING id of
\* campaignRepo.CreateCampaign fills it in
CampaignRepoCreateCampaign(c, id) == [c EXCEPT !.id = id]

\* GenerateCodes with the loop running to i <= n: one code too many
GenerateCodesOneMore(table, id, n) ==
    [i \in 1..(n + 1) |-> generateSecureCoupon(table, W64(id), W64(i - 1))]

\* GenerateCodes with the loop running to i < n - 1: one code too few
GenerateCodesOneLess(table, id, n) ==
    [i \in 1..(n - 1) |-> generateSecureCoupon(table, W64(id), W64(i - 1))]

\* GenerateCodes with the loop running from i := 1 to i <= n
GenerateCodesFromOne(table, id, n) ==
    [i \in 1..n |-> generateSecureCoupon(table, W64(id), W64(i))]

\* for i := 0; i < int(n); i++ { code := s.generateSecureCoupon(id, uint64(i)) }
GenerateCodes(table, id, n) ==
    [i \in 1..n |-> generateSecureCoupon(table, W64(id), W64(i - 1))]

\* CreateCampaign up to its first statement on the coupons table:
\* BeginTxx(ctx), the campaign insert (the sequence value is consumed whether
\* or not the transaction later commits), and the generation of the codes.
\* A negative count makes make([]string, 0, n) panic; the deferred Rollback
\* still runs.
CreateCampaign(p, n, sd) ==
    /\ idSeq < MaxCampaigns
    /\ \/ /\ Fault
          /\ FailAtEntry(p, CreateReq(n, sd), "Internal",
                         "failed to begin transaction")
          /\ UNCHANGED << idSeq, history >>
       \/ /\ Fault
          /\ \E drawn \in {0, 1} : idSeq' = idSeq + drawn
          /\ FailAtEntry(p, CreateReq(n, sd), "Internal",
                         "failed to create campaign")
          /\ UNCHANGED history
       \/ /\ n < 0
          /\ idSeq' = idSeq + 1
          /\ FailAtEntry(p, CreateReq(n, sd), "Panic",
                         "makeslice: cap out of range")
          /\ UNCHANGED << faults, history >>
       \/ /\ n >= 0
          /\ Enter(p, CreateReq(n, sd))
          /\ LET row == CampaignRepoCreateCampaign(
                            [NoCampaign EXCEPT !.available_coupons = n,
                                               !.start_date = sd],
                            idSeq + 1)
             IN  /\ idSeq' = idSeq + 1
                 /\ campaign' = [campaign EXCEPT ![p] = row]
                 /\ tx' = [tx EXCEPT ![p] = [OpenTx EXCEPT !.campaigns = {row}]]
                 /\ \E table \in 0..(NCiphers - 1) :
                       /\ n > 0 \/ table = 0
                       /\ cipher' = [cipher EXCEPT ![idSeq + 1] =
                              IF n > 0 THEN table ELSE @]
                       /\ couponCodes' = [couponCodes EXCEPT ![p] =
                              GenerateCodes(table, idSeq + 1, n)]
          /\ pc' = [pc EXCEPT ![p] = "create_coupons"]
          /\ UNCHANGED << gen, now, campaigns, coupons, couponCode, batch,
                          ctxDone, out, faults, history >>

Min(a, b) == IF a < b THEN a ELSE b

\* insertCouponBatch binding a fixed campaign id, not its argument
insertCouponBatchIntoFirst(campaignID, codes, createdAt, txStart) ==
    { [code |-> codes[k], campaign_id |-> 1, status |-> "available",
       issued_at |-> txStart, created_at |-> createdAt] : k \in DOMAIN codes }

\* insertCouponBatch writing the wrong status literal
insertCouponBatchIssued(campaignID, codes, createdAt, txStart) ==
    { [code |-> codes[k], campaign_id |-> campaignID, status |-> "issued",
       issued_at |-> txStart, created_at |-> createdAt] : k \in DOMAIN codes }

\* the rows one INSERT INTO coupons (code, campaign_id, status, created_at)
\* statement adds; issued_at is left to its column default NOW(), the start
\* time of the inserting transaction
insertCouponBatch(campaignID, codes, createdAt, txStart) ==
    { [code |-> codes[k], campaign_id |-> campaignID, status |-> "available",
       issued_at |-> txStart, created_at |-> createdAt] : k \in DOMAIN codes }

\* UniqueViolation that compares with stored rows only, not within the batch
UniqueViolationStoredOnly(p, codes) ==
    \E k \in DOMAIN codes : codes[k] \in { r.code : r \in VisibleCoupons(p) }

\* UniqueViolation on a table without the primary key: nothing is rejected
UniqueViolationNever(p, codes) == FALSE

\* the primary key on coupons.code rejects the batch: a code twice in the
\* batch, or a code of a row the transaction can see
UniqueViolation(p, codes) ==
    \/ \E j, k \in DOMAIN codes : j # k /\ codes[j] = codes[k]
    \/ \E k \in DOMAIN codes : codes[k] \in { r.code : r \in VisibleCoupons(p) }

\* InsertBlocked under a table-level lock: the insert waits for every other
\* open transaction
InsertBlockedByAnyTx(p, codes) == \E q \in Callers \ {p} : tx[q].open

\* the insert has to wait for another transaction's uncommitted row with the
\* same code to commit or roll back
InsertBlocked(p, codes) ==
    \E k \in DOMAIN codes : codes[k] \in InsertedByOthers(p)

\* ChunkEnd without the clamp to len(couponCodes)
ChunkEndUnclamped(i, n) == i + batchSize

\* end := i + batchSize; if end > len(couponCodes) { end = len(couponCodes) }
ChunkEnd(i, n) == Min(i + batchSize, n)

\* s.couponRepo.CreatePregeneratedCoupons(tx, campaign.ID, couponCodes): one
\* step per batch of at most batchSize codes; now := time.Now() is taken once,
\* before the first batch.
CreatePregeneratedCoupons(p) ==
    /\ Quiet
    /\ pc[p] = "create_coupons"
    /\ LET codes == couponCodes[p]
           i     == batch[p].i
           end   == ChunkEnd(i, Len(codes))
           chunk == SubSeq(codes, i + 1, end)
           at    == IF i = 0 THEN now ELSE batch[p].created_at
       IN  \/ /\ i >= Len(codes)
              /\ pc' = [pc EXCEPT ![p] = "create_commit"]
              /\ UNCHANGED << gen, cipher, now, campaigns, coupons, idSeq, req,
                              campaign, couponCodes, couponCode, batch, tx,
                              ctxDone, out, calls, faults, history >>
           \/ /\ i < Len(codes)
              /\ TxDone(p, "failed to store coupons in DB")
           \/ /\ i < Len(codes)
              /\ TxError(p, "failed to store coupons in DB")
           \/ /\ i < Len(codes)
              /\ tx[p].open
              /\ UniqueViolation(p, chunk)
              /\ Fail(p, "Internal", "failed to store coupons in DB")
              /\ UNCHANGED << faults, history >>
           \/ /\ i < Len(codes)
              /\ tx[p].open
              /\ ~UniqueViolation(p, chunk)
              /\ ~InsertBlocked(p, chunk)
              /\ tx' = [tx EXCEPT ![p].coupons = @ \cup
                     insertCouponBatch(campaign[p].id, chunk, at, tx[p].start)]
              /\ batch' = [batch EXCEPT ![p] = [i |-> end, created_at |-> at]]
              /\ pc' = [pc EXCEPT ![p] =
                     IF end >= Len(codes) THEN "create_commit"
                     ELSE "create_coupons"]
              /\ UNCHANGED << gen, cipher, now, campaigns, coupons, idSeq, req,
                              campaign, couponCodes, couponCode, ctxDone, out,
                              calls, faults, history >>

\* tx.Commit(): the campaign row and the whole pool become visible together
CreateCommit(p) ==
    /\ Quiet
    /\ pc[p] = "create_commit"
    /\ \/ TxDone(p, "failed to commit transaction")
       \/ TxError(p, "failed to commit transaction")
       \/ /\ tx[p].open
          /\ campaigns' = campaigns \cup tx[p].campaigns
          /\ coupons' = coupons \cup tx[p].coupons
          /\ tx' = [tx EXCEPT ![p] = NoTx]
          /\ Return(p, "OK", "", <<>>, Proto(campaign[p]),
                    RecordIssueCouponDuration(req[p].op, "success"))
          /\ UNCHANGED << gen, cipher, now, idSeq, req, calls, faults, history >>

\* ------------------------------------------------------------ GetCampaign
GetReq(id) == [op |-> "GetCampaign", campaign_id |-> id,
               available_coupons |-> 0, start_date |-> 0]

\* GetCampaignRow with the WHERE clause lost: any campaign row
GetCampaignRowAny(id) == campaigns

\* SELECT ... FROM campaigns WHERE id = $1, on the pool (committed rows)
GetCampaignRow(id) == { c \in campaigns : c.id = id }

\* IssuedCodes without ORDER BY issued_at ASC: the issued codes in any order
IssuedCodesUnordered(id) ==
    LET rows == { r \in coupons : r.campaign_id = id /\ r.status = "issued" }
        n    == Cardinality(rows)
    IN  { [k \in 1..n |-> f[k].code] :
            f \in { g \in [1..n -> rows] :
                      \A j, k \in 1..n : j # k => g[j] # g[k] } }

\* IssuedCodes with the status condition inverted: the codes still available
IssuedCodesAvailable(id) ==
    LET rows == { r \in coupons : r.campaign_id = id /\ r.status = "available" }
        n    == Cardinality(rows)
    IN  { [k \in 1..n |-> f[k].code] :
            f \in { g \in [1..n -> rows] :
                      /\ \A j, k \in 1..n : j # k => g[j] # g[k]
                      /\ \A j, k \in 1..n :
                            j < k => g[j].issued_at <= g[k].issued_at } }

\* IssuedCodes without the status = 'issued' condition: every code of the
\* campaign
IssuedCodesAnyStatus(id) ==
    LET rows == { r \in coupons : r.campaign_id = id }
        n    == Cardinality(rows)
    IN  { [k \in 1..n |-> f[k].code] :
            f \in { g \in [1..n -> rows] :
                      /\ \A j, k \in 1..n : j # k => g[j] # g[k]
                      /\ \A j, k \in 1..n :
                            j < k => g[j].issued_at <= g[k].issued_at } }

\* SELECT code FROM coupons WHERE campaign_id = $1 AND status = 'issued'
\* ORDER BY issued_at ASC: every order of the rows that is sorted by issued_at
\* (rows with equal issued_at come in any order)
IssuedCodes(id) ==
    LET rows == { r \in coupons : r.campaign_id = id /\ r.status = "issued" }
        n    == Cardinality(rows)
    IN  { [k \in 1..n |-> f[k].code] :
            f \in { g \in [1..n -> rows] :
                      /\ \A j, k \in 1..n : j # k => g[j] # g[k]
                      /\ \A j, k \in 1..n :
                            j < k => g[j].issued_at <= g[k].issued_at } }

\* s.campaignRepo.GetCampaignWithCoupons, first statement: r.GetCampaign
GetCampaign(p, id) ==
    \/ /\ Fault
       /\ FailAtEntry(p, GetReq(id), "Internal", "failed to get campaign")
       /\ UNCHANGED << idSeq, history >>
    \/ /\ GetCampaignRow(id) = {}
       /\ FailAtEntry(p, GetReq(id), "NotFound", "campaign not found")
       /\ UNCHANGED << idSeq, faults, history >>
    \/ /\ Enter(p, GetReq(id))
       /\ \E c \in GetCampaignRow(id) :
             campaign' = [campaign EXCEPT ![p] = c]
       /\ pc' = [pc EXCEPT ![p] = "get_codes"]
       /\ UNCHANGED << gen, cipher, now, campaigns, coupons, idSeq, couponCodes,
                       couponCode, batch, tx, ctxDone, out, faults, history >>

\* GetCampaignWithCoupons, second statement, and the response
GetCampaignWithCoupons(p) ==
    /\ Quiet
    /\ pc[p] = "get_codes"
    /\ \/ StorageError(p, "failed to get campaign")
       \/ /\ \E codes \in IssuedCodes(req[p].campaign_id) :
                /\ Return(p, "OK", "", codes, Proto(campaign[p]),
                          RecordIssueCouponDuration(req[p].op, "success"))
                /\ listed' = [listed EXCEPT ![req[p].campaign_id] =
                                  Append(@, codes)]
          /\ UNCHANGED << gen, cipher, now, campaigns, coupons, idSeq, req, tx,
                          calls, faults, attempts, exhausted, handedOut,
                          afterExhaustion >>

\* ------------------------------------------------------------ IssueCoupon
IssueReq(id) == [op |-> "IssueCoupon", campaign_id |-> id,
                 available_coupons |-> 0, start_date |-> 0]

\* Before with the start-time check dropped: no call is too early
BeforeNever(t, u) == FALSE

\* Before as "not after": a call at exactly start_date counts as too early
BeforeOrAt(t, u) == t <= u

\* Before with the comparison turned round
BeforeInverted(t, u) == u < t

\* time.Time.Before
Before(t, u) == t < u

\* IssueCoupon up to its first statement inside the transaction: the campaign
\* lookup on the pool, the start-time check against time.Now(), and
\* BeginTxx(ctx).  None of the three changes the store.
IssueCoupon(p, id) ==
    \/ /\ Fault
       /\ FailAtEntry(p, IssueReq(id), "Internal", "failed to get campaign")
       /\ UNCHANGED << idSeq, history >>
    \/ /\ Fault
       /\ \E c \in GetCampaignRow(id) : ~Before(now, c.start_date)
       /\ FailAtEntry(p, IssueReq(id), "Internal",
                      "failed to begin transaction")
       /\ UNCHANGED << idSeq, history >>
    \/ /\ GetCampaignRow(id) = {}
       /\ FailAtEntry(p, IssueReq(id), "NotFound", "campaign not found")
       /\ UNCHANGED << idSeq, faults, history >>
    \/ /\ \E c \in GetCampaignRow(id) : Before(now, c.start_date)
       /\ FailAtEntry(p, IssueReq(id), "FailedPrecondition",
                      "campaign has not started yet")
       /\ UNCHANGED << idSeq, faults, history >>
    \/ /\ Enter(p, IssueReq(id))
       /\ \E c \in GetCampaignRow(id) :
             /\ ~Before(now, c.start_date)
             /\ campaign' = [campaign EXCEPT ![p] = c]
       /\ tx' = [tx EXCEPT ![p] = OpenTx]
       /\ pc' = [pc EXCEPT ![p] = "issue_reserve"]
       /\ attempts' = [attempts EXCEPT ![id] = @ + 1]
       /\ afterExhaustion' = [afterExhaustion EXCEPT ![p] = exhausted[id] > 0]
       /\ UNCHANGED << gen, cipher, now, campaigns, coupons, idSeq, couponCodes,
                       couponCode, batch, ctxDone, out, faults, exhausted,
                       handedOut, listed >>

\* ReserveAvailableCoupon as a plain SELECT, without FOR UPDATE SKIP LOCKED:
\* rows locked by other transactions are returned as well
ReserveIgnoringLocks(p, campaignID) ==
    LET free == { r \in VisibleCoupons(p) :
                     /\ r.campaign_id = campaignID
                     /\ r.status = "available" }
    IN  { r.code : r \in { x \in free :
                             \A y \in free : x.created_at <= y.created_at } }

\* ReserveAvailableCoupon with LIMIT 1 taken before the lock test: the one
\* oldest available row, or nothing when another transaction holds it
ReserveFirstOrNothing(p, campaignID) ==
    LET free == { r \in VisibleCoupons(p) :
                     /\ r.campaign_id = campaignID
                     /\ r.status = "available" }
        first == CHOOSE x \in free :
                     \A y \in free : x.created_at <= y.created_at
    IN  IF free = {} \/ first.code \in LockedByOthers(p) THEN {}
        ELSE {first.code}

\* ReserveAvailableCoupon without the campaign_id = $1 condition: the oldest
\* available, unlocked row of any campaign
ReserveFromAnyCampaign(p, campaignID) ==
    LET free == { r \in VisibleCoupons(p) :
                     /\ r.status = "available"
                     /\ r.code \notin LockedByOthers(p) }
    IN  { r.code : r \in { x \in free :
                             \A y \in free : x.created_at <= y.created_at } }

\* ReserveAvailableCoupon without the condition status = 'available'
ReserveAnyStatus(p, campaignID) ==
    LET free == { r \in VisibleCoupons(p) :
                     /\ r.campaign_id = campaignID
                     /\ r.code \notin LockedByOthers(p) }
    IN  { r.code : r \in { x \in free :
                             \A y \in free : x.created_at <= y.created_at } }

\* ReserveAvailableCoupon with FOR UPDATE NOWAIT semantics turned into "no
\* rows": nothing is returned while another transaction holds a lock on an
\* available row of the campaign
ReserveNothingUnderContention(p, campaignID) ==
    LET free == { r \in VisibleCoupons(p) :
                     /\ r.campaign_id = campaignID
                     /\ r.status = "available" }
    IN  IF \E r \in free : r.code \in LockedByOthers(p) THEN {}
        ELSE { r.code : r \in { x \in free :
                                   \A y \in free : x.created_at <= y.created_at } }

\* SELECT code FROM coupons WHERE campaign_id = $1 AND status = 'available'
\* ORDER BY created_at ASC LIMIT 1 FOR UPDATE SKIP LOCKED: the codes the
\* statement may return (rows with equal created_at come in any order)
ReserveAvailableCoupon(p, campaignID) ==
    LET free == { r \in VisibleCoupons(p) :
                     /\ r.campaign_id = campaignID
                     /\ r.status = "available"
                     /\ r.code \notin LockedByOthers(p) }
    IN  { r.code : r \in { x \in free :
                             \A y \in free : x.created_at <= y.created_at } }

\* couponCode, err := s.couponRepo.ReserveAvailableCoupon(tx, id)
IssueReserve(p) ==
    /\ Quiet
    /\ pc[p] = "issue_reserve"
    /\ \/ TxDone(p, "failed to reserve coupon")
       \/ TxError(p, "failed to reserve coupon")
       \/ /\ tx[p].open
          /\ ReserveAvailableCoupon(p, req[p].campaign_id) = {}
          /\ Fail(p, "ResourceExhausted", "no more coupons available")
          /\ exhausted' = [exhausted EXCEPT ![req[p].campaign_id] = @ + 1]
          /\ UNCHANGED << faults, attempts, handedOut, afterExhaustion,
                          listed >>
       \/ /\ tx[p].open
          /\ \E code \in ReserveAvailableCoupon(p, req[p].campaign_id) :
                /\ couponCode' = [couponCode EXCEPT ![p] = code]
                /\ tx' = [tx EXCEPT ![p].locked = @ \cup {code}]
          /\ pc' = [pc EXCEPT ![p] = "issue_mark"]
          /\ UNCHANGED << gen, cipher, now, campaigns, coupons, idSeq, req,
                          campaign, couponCodes, batch, ctxDone, out, calls,
                          faults, history >>

\* MarkCouponAsIssued with SET issued_at = $1 only: the status stays as it is
MarkCouponAsIssuedKeepsStatus(p, code) ==
    { [code |-> r.code, status |-> r.status, issued_at |-> now] :
         r \in { x \in VisibleCoupons(p) :
                    x.code = code /\ x.status = "available" } }

\* UPDATE coupons SET status = 'issued', issued_at = $1 WHERE code = $2 AND
\* status = 'available', with now := time.Now(): the pending row updates it
\* leaves in the transaction, one per row affected
MarkCouponAsIssued(p, code) ==
    { [code |-> r.code, status |-> "issued", issued_at |-> now] :
         r \in { x \in VisibleCoupons(p) :
                    x.code = code /\ x.status = "available" } }

\* s.couponRepo.MarkCouponAsIssued(tx, couponCode); zero rows affected is
\* the error "coupon not found or already issued".  The UPDATE needs the row
\* lock, which the reservation already holds.
IssueMark(p) ==
    /\ Quiet
    /\ pc[p] = "issue_mark"
    /\ \/ TxDone(p, "failed to mark coupon as issued")
       \/ TxError(p, "failed to mark coupon as issued")
       \/ /\ tx[p].open
          /\ couponCode[p] \notin LockedByOthers(p)
          /\ MarkCouponAsIssued(p, couponCode[p]) = {}
          /\ Fail(p, "Internal", "failed to mark coupon as issued")
          /\ UNCHANGED << faults, history >>
       \/ /\ tx[p].open
          /\ couponCode[p] \notin LockedByOthers(p)
          /\ MarkCouponAsIssued(p, couponCode[p]) # {}
          /\ tx' = [tx EXCEPT
                 ![p].updates = @ \cup MarkCouponAsIssued(p, couponCode[p]),
                 ![p].locked = @ \cup {couponCode[p]}]
          /\ pc' = [pc EXCEPT ![p] = "issue_commit"]
          /\ UNCHANGED << gen, cipher, now, campaigns, coupons, idSeq, req,
                          campaign, couponCodes, couponCode, batch, ctxDone,
                          out, calls, faults, history >>

\* one more occurrence of x in bag b
BagAdd(b, x) ==
    IF x \in DOMAIN b THEN [b EXCEPT ![x] = @ + 1] ELSE b @@ (x :> 1)

\* tx.Commit(); result = "success"; the response carries the code
IssueCommit(p) ==
    /\ Quiet
    /\ pc[p] = "issue_commit"
    /\ \/ TxDone(p, "failed to commit transaction")
       \/ TxError(p, "failed to commit transaction")
       \/ /\ tx[p].open
          /\ coupons' = ApplyUpdates(coupons, tx[p].updates)
          /\ tx' = [tx EXCEPT ![p] = NoTx]
          /\ Return(p, "OK", "", <<couponCode[p]>>,
                    [NoProto EXCEPT !.id = req[p].campaign_id],
                    RecordIssueCouponDuration(req[p].op, "success"))
          /\ handedOut' =
                 BagAdd(handedOut, <<req[p].campaign_id, couponCode[p]>>)
          /\ UNCHANGED << gen, cipher, now, campaigns, idSeq, req, calls, faults,
                          attempts, exhausted, afterExhaustion, listed >>

\* ------------------------------------------------------------ specification
\* campaign ids a request names: those handed out so far, and the next one,
\* which no campaign has yet
RequestIds == 1..(idSeq + 1)

Next ==
    \/ Tick
    \/ \E p \in Callers :
          \/ Deliver(p)
          \/ Cancel(p)
          \/ \E r \in CreateRequests : CreateCampaign(p, r[1], r[2])
          \/ CreatePregeneratedCoupons(p)
          \/ CreateCommit(p)
          \/ \E id \in RequestIds : GetCampaign(p, id)
          \/ GetCampaignWithCoupons(p)
          \/ \E id \in RequestIds : IssueCoupon(p, id)
          \/ IssueReserve(p)
          \/ IssueMark(p)
          \/ IssueCommit(p)

Spec == Init /\ [][Next]_vars

\* A handler that can take its next step takes it: the Go scheduler runs
\* every runnable goroutine and the store answers every statement it does
\* not have to hold back.  Nothing obliges the store to fail a statement or
\* a client to cancel, and nothing obliges a client to send a request.
HandlerStep(p) ==
    /\ \/ Deliver(p)
       \/ CreatePregeneratedCoupons(p)
       \/ CreateCommit(p)
       \/ GetCampaignWithCoupons(p)
       \/ IssueReserve(p)
       \/ IssueMark(p)
       \/ IssueCommit(p)
    /\ faults' = faults

FairSpec == Spec /\ \A p \in Callers : WF_vars(HandlerStep(p))

\* -------------------------------------------- the code generator on its own
\* generateSecureCoupon is a method that reads nothing but its arguments; the
\* second specification evaluates it, and the code formation from a cipher
\* block, on inputs drawn from bounded sets, while the clock runs.
service == << cipher, campaigns, coupons, idSeq, pc, req, campaign,
              couponCodes, couponCode, batch, tx, ctxDone, out, calls, faults,
              attempts, exhausted, handedOut, afterExhaustion, listed >>

\* campaign ids and coupon indices the generator is evaluated on
GenIds == 1..MaxCampaigns
GenIndexes == 0..MaxCoupons

\* values of cipher[0] and cipher[1]: the ends of the byte range and the
\* values around len(digits), len(hanguls) and len(pool)
ByteSamples == {0, 9, 10, 27, 28, 37, 38, 255}

\* values of cipher[8:]: 0, 38^8 - 1, 38^8 and 2^64 - 1
TailSamples == { <<0, 0, 0, 0, 0, 0, 0, 0>>,
                 <<0, 0, 3, 244, 76, 155, 32, 255>>,
                 <<0, 0, 3, 244, 76, 155, 33, 0>>,
                 <<255, 255, 255, 255, 255, 255, 255, 255>> }

\* code, err := s.generateSecureCoupon(campaign.ID, uint64(i))
Generate(table, id, i) ==
    /\ gen = NoGen
    /\ gen' = [campaignID |-> id, couponIndex |-> i, table |-> table,
               ct |-> Encrypt(table, generateCampaignKey(W64(id)),
                              Plain(createUniqueSequence(W64(id), W64(i)))),
               code |-> generateSecureCoupon(table, W64(id), W64(i)),
               at |-> now,
               again |-> <<>>, againAt |-> 0, packed |-> <<>>,
               other |-> <<>>, keys |-> <<>>, bodies |-> <<>>,
               bulk |-> <<>>]
    /\ UNCHANGED << now, service >>

\* a second evaluation on the same arguments
GenerateAgain ==
    /\ gen.campaignID # 0
    /\ gen.again = <<>>
    /\ gen' = [gen EXCEPT
           !.again = generateSecureCoupon(gen.table, W64(gen.campaignID),
                                          W64(gen.couponIndex)),
           !.againAt = now]
    /\ UNCHANGED << now, service >>

\* the loop of CreateCampaign reaching another index j of the same campaign:
\* couponCodes[j] = s.generateSecureCoupon(campaign.ID, uint64(j))
GenerateOther(j) ==
    /\ gen.campaignID # 0
    /\ gen.other = <<>>
    /\ j # gen.couponIndex
    /\ gen' = [gen EXCEPT
           !.other = [couponIndex |-> j,
                      code |-> generateSecureCoupon(gen.table,
                                   W64(gen.campaignID), W64(j))]]
    /\ UNCHANGED << now, service >>

\* steps 3 to 5 of generateSecureCoupon on a cipher block that block.Encrypt
\* may have left in cipher
Encode(b0, b1, tail) ==
    /\ gen = NoGen
    /\ gen' = [NoGen EXCEPT !.ct = Block(b0, b1, tail),
                            !.code = CodeOf(Block(b0, b1, tail)),
                            !.at = now]
    /\ UNCHANGED << now, service >>

\* int64 campaign ids the packing is evaluated on: 1, 2, 2^32 + 1 and -1
WideIds == { W64(1), W64(2), <<0, 0, 0, 1, 0, 0, 0, 1>>,
             <<255, 255, 255, 255, 255, 255, 255, 255>> }

\* uint64 coupon indices the packing is evaluated on: 0, 1 and 2^32
WideIndexes == { W64(0), W64(1), <<0, 0, 0, 1, 0, 0, 0, 0>> }

\* seq := s.createUniqueSequence(campaignID, couponIndex), on two pairs of
\* arguments
Pack(id1, i1, id2, i2) ==
    /\ gen = NoGen
    /\ gen' = [NoGen EXCEPT !.packed =
           << [campaignID |-> id1, couponIndex |-> i1,
               seq |-> createUniqueSequence(id1, i1)],
              [campaignID |-> id2, couponIndex |-> i2,
               seq |-> createUniqueSequence(id2, i2)] >>,
           !.at = now]
    /\ UNCHANGED << now, service >>

\* values of v := binary.BigEndian.Uint64(cipher[8:]) the body is formed
\* from: those of TailSamples, 1, 38, 38^8 + 1 and 2 * 38^8
BodySamples ==
    TailSamples \cup { <<0, 0, 0, 0, 0, 0, 0, 1>>,
                       <<0, 0, 0, 0, 0, 0, 0, 38>>,
                       <<0, 0, 3, 244, 76, 155, 33, 1>>,
                       <<0, 0, 7, 232, 153, 54, 66, 0>> }

\* step 4 of generateSecureCoupon, the body of 8 symbols, on two values of v
EncodeBodies(v1, v2) ==
    /\ gen = NoGen
    /\ gen' = [NoGen EXCEPT !.bodies =
           << [v |-> v1, body |-> Body(v1, bodyLen)],
              [v |-> v2, body |-> Body(v2, bodyLen)] >>,
           !.at = now]
    /\ UNCHANGED << now, service >>

\* int64 campaign ids the key derivation is evaluated on: those of WideIds
\* and 2^15 + 1
KeyIds == WideIds \cup { <<0, 0, 0, 0, 0, 0, 128, 1>> }

\* key := s.generateCampaignKey(campaignID), on two campaign ids
Derive(id1, id2) ==
    /\ gen = NoGen
    /\ gen' = [NoGen EXCEPT !.keys =
           << [campaignID |-> id1, key |-> generateCampaignKey(id1)],
              [campaignID |-> id2, key |-> generateCampaignKey(id2)] >>,
           !.at = now]
    /\ UNCHANGED << now, service >>

GenNext ==
    \/ Tick
    \/ \E id1, id2 \in KeyIds : Derive(id1, id2)
    \/ \E v1, v2 \in BodySamples : EncodeBodies(v1, v2)
    \/ \E id1, id2 \in WideIds, i1, i2 \in WideIndexes : Pack(id1, i1, id2, i2)
    \/ \E table \in 0..(NCiphers - 1), id \in GenIds, i \in GenIndexes :
          Generate(table, id, i)
    \/ GenerateAgain
    \/ \E j \in GenIndexes : GenerateOther(j)
    \/ \E b0, b1 \in ByteSamples, tail \in TailSamples : Encode(b0, b1, tail)

GenSpec == Init /\ [][GenNext]_vars

\* ---------------------------------------------------------------------
\* CreatePregeneratedCoupons on lists of up to three batches.  The list is
\* given by its length n; a batch is the half-open range of positions
\* couponCodes[from:to] one INSERT statement carries, with the createdAt it
\* binds and the time at which it is sent.  gen.bulk holds the loop's state,
\* the caller's transaction, and what other transactions can see of it.

\* len(couponCodes): empty, one code, around one batch, two batches, and
\* two batches and one code
BulkSizes == {0, 1, batchSize - 1, batchSize, batchSize + 1, 2 * batchSize,
              2 * batchSize + 1}

\* insertCouponRange binding the time of the statement, not its argument
insertCouponRangeStampedNow(from, to, createdAt) ==
    [from |-> from, to |-> to, created_at |-> now, sent |-> now]

\* r.insertCouponBatch(tx, campaignID, couponCodes[from:to], createdAt): the
\* rows of one INSERT statement
insertCouponRange(from, to, createdAt) ==
    [from |-> from, to |-> to, created_at |-> createdAt, sent |-> now]

\* CreateCampaign has begun its transaction and calls
\* CreatePregeneratedCoupons: now := time.Now(), i := 0
BulkBegin(n) ==
    /\ gen = NoGen
    /\ gen' = [NoGen EXCEPT !.bulk =
           [n |-> n, i |-> 0, created_at |-> now, chunks |-> <<>>,
            pc |-> "loop", err |-> FALSE, tx |-> "open", visible |-> <<>>]]
    /\ UNCHANGED << now, service >>

\* one round of the loop: batch := couponCodes[i:end], insertCouponBatch
\* succeeds, i += batchSize
BulkInsert ==
    /\ gen.bulk # <<>>
    /\ gen.bulk.pc = "loop"
    /\ gen.bulk.i < gen.bulk.n
    /\ gen' = [gen EXCEPT
           !.bulk.chunks = Append(@,
               insertCouponRange(gen.bulk.i, ChunkEnd(gen.bulk.i, gen.bulk.n),
                                 gen.bulk.created_at)),
           !.bulk.i = @ + batchSize]
    /\ UNCHANGED << now, service >>

\* one round of the loop in which tx.Exec fails: return the error
BulkInsertFails ==
    /\ gen.bulk # <<>>
    /\ gen.bulk.pc = "loop"
    /\ gen.bulk.i < gen.bulk.n
    /\ gen' = [gen EXCEPT !.bulk.err = TRUE, !.bulk.pc = "returned"]
    /\ UNCHANGED << now, service >>

\* the loop condition fails: return nil
BulkReturn ==
    /\ gen.bulk # <<>>
    /\ gen.bulk.pc = "loop"
    /\ gen.bulk.i >= gen.bulk.n
    /\ gen' = [gen EXCEPT !.bulk.pc = "returned"]
    /\ UNCHANGED << now, service >>

\* back in CreateCampaign, err == nil: tx.Commit() succeeds and the rows of
\* the transaction become visible
BulkCommit ==
    /\ gen.bulk # <<>>
    /\ gen.bulk.pc = "returned"
    /\ ~gen.bulk.err
    /\ gen' = [gen EXCEPT !.bulk.pc = "done", !.bulk.tx = "committed",
                          !.bulk.visible = gen.bulk.chunks]
    /\ UNCHANGED << now, service >>

\* back in CreateCampaign: err != nil, or tx.Commit() fails; the deferred
\* tx.Rollback() discards the rows of the transaction
BulkRollback ==
    /\ gen.bulk # <<>>
    /\ gen.bulk.pc = "returned"
    /\ gen' = [gen EXCEPT !.bulk.pc = "done", !.bulk.tx = "rolled_back",
                          !.bulk.err = TRUE]
    /\ UNCHANGED << now, service >>

BulkNext ==
    \/ Tick
    \/ \E n \in BulkSizes : BulkBegin(n)
    \/ BulkInsert
    \/ BulkInsertFails
    \/ BulkReturn
    \/ BulkCommit
    \/ BulkRollback

BulkSpec == Init /\ [][BulkNext]_vars

\* ------------------------------------------------------------- properties
\* rows of table coupons that belong to campaign id
CouponsOf(id) == { r \in coupons : r.campaign_id = id }

\* the committed rows of campaign id in the given status
InStatus(id, status) == { r \in CouponsOf(id) : r.status = status }

RECURSIVE BagSum(_, _)
\* number of occurrences, in bag b, of the elements of S
BagSum(b, S) ==
    IF S = {} THEN 0
    ELSE LET x == CHOOSE y \in S : TRUE
         IN  b[x] + BagSum(b, S \ {x})

\* successful IssueCoupon calls on campaign id so far
Succeeded(id) == BagSum(handedOut, { x \in DOMAIN handedOut : x[1] = id })

\* no call is running and no response is waiting
Idle == \A p \in Callers : pc[p] = "idle"

\* caller slot p starts a call of operation op in this step
Starts(p, op) == pc[p] = "idle" /\ pc'[p] # "idle" /\ req'[p].op = op

\* the call of operation op that caller slot p runs ends in this step
Ends(p, op) == pc[p] # "done" /\ pc'[p] = "done" /\ req'[p].op = op

\* C1 (No over-issuance): in every reachable state, for every campaign, the
\* number of its coupons with status issued is at most its available_coupons.
NoOverIssuance ==
    \A c \in campaigns :
        Cardinality(InStatus(c.id, "issued")) <= c.available_coupons

\* C1 witness: a campaign of two coupons is sold out and a further call on
\* it has been answered ResourceExhausted.
SoldOutAndRefused ==
    \E c \in campaigns :
        /\ c.available_coupons = 2
        /\ Cardinality(InStatus(c.id, "issued")) = 2
        /\ exhausted[c.id] > 0

\* C2 (No double issuance): no coupon code has been returned by two
\* different successful IssueCoupon calls, of the same or of different
\* campaigns.
NoDoubleIssuance ==
    \A x \in DOMAIN handedOut :
        /\ handedOut[x] = 1
        /\ \A y \in DOMAIN handedOut : x[2] = y[2] => x = y

\* C2 witness: two successful IssueCoupon calls have returned.
TwoCodesHandedOut ==
    BagSum(handedOut, DOMAIN handedOut) >= 2

\* C3 (Exact sell-out): once every call has ended, if no storage failure and
\* no cancellation has occurred, then of the N IssueCoupon calls made on a
\* started campaign of K coupons exactly min(N, K) succeeded and all the
\* others were answered ResourceExhausted.
ExactSellOut ==
    (Idle /\ faults = 0) =>
        \A c \in campaigns :
            LET N == attempts[c.id]
                K == c.available_coupons
            IN  /\ Succeeded(c.id) = Min(N, K)
                /\ exhausted[c.id] = N - Min(N, K)

\* C3 witness: three calls were made on a campaign of two coupons without a
\* failure; all have ended, one of them with ResourceExhausted.
ThreeCallersTwoCoupons ==
    /\ Idle
    /\ faults = 0
    /\ \E c \in campaigns :
          /\ c.available_coupons = 2
          /\ attempts[c.id] = 3
          /\ exhausted[c.id] = 1

\* C4 (Row-lock mutual exclusion): no two IssueCoupon transactions in flight
\* have selected the same coupon row, and a row locked by one transaction is
\* not among the rows another one's selection may return.
RowLockMutualExclusion ==
    \A p, q \in Callers :
        (p # q /\ tx[p].open /\ tx[q].open) =>
            /\ couponCode[p] # NoCode => couponCode[p] # couponCode[q]
            /\ tx[p].locked \cap tx[q].locked = {}
            /\ tx[p].locked \cap
                   ReserveAvailableCoupon(q, req[q].campaign_id) = {}

\* C4 witness: two IssueCoupon transactions are in flight, each holding a
\* row of the same campaign.
TwoReservationsInFlight ==
    \E p, q \in Callers :
        /\ p # q
        /\ tx[p].open /\ tx[q].open
        /\ couponCode[p] # NoCode /\ couponCode[q] # NoCode
        /\ req[p].campaign_id = req[q].campaign_id

\* C5 (Coupon state machine): a coupon row enters the table with status
\* available; the only change of its status is available -> issued, made by
\* the commit of the IssueCoupon call that selected it; an issued row stays
\* issued, and no row disappears.
CouponStateMachine ==
    [][ /\ \A r \in coupons :
              \E r2 \in coupons' :
                 /\ r2.code = r.code
                 /\ r2.campaign_id = r.campaign_id
                 /\ \/ r2.status = r.status
                    \/ /\ r.status = "available"
                       /\ r2.status = "issued"
                       /\ \E p \in Callers :
                             /\ Ends(p, "IssueCoupon")
                             /\ out'[p].err = "OK"
                             /\ couponCode[p] = r.code
        /\ \A r2 \in coupons' :
              (\A r \in coupons : r.code # r2.code) => r2.status = "available"
        /\ \A p \in Callers :
              \A r2 \in tx'[p].coupons : r2.status = "available"
      ]_vars

\* C5 witness: of the two coupons of a campaign one has been issued and the
\* other is still available.
OneIssuedOneAvailable ==
    \E c \in campaigns :
        /\ InStatus(c.id, "issued") # {}
        /\ InStatus(c.id, "available") # {}

\* C6 (Pool-size invariant): every committed campaign has exactly
\* available_coupons coupon rows, every committed coupon row belongs to a
\* committed campaign, and of a CreateCampaign call still in flight neither
\* the campaign row nor any coupon row is committed.
PoolSizeInvariant ==
    /\ \A c \in campaigns : Cardinality(CouponsOf(c.id)) = c.available_coupons
    /\ \A r \in coupons : \E c \in campaigns : c.id = r.campaign_id
    /\ \A p \in Callers :
          pc[p] \in {"create_coupons", "create_commit"} =>
              /\ GetCampaignRow(campaign[p].id) = {}
              /\ CouponsOf(campaign[p].id) = {}

\* C6 witness: a campaign with its two coupons is committed while another
\* CreateCampaign call has inserted its pool and has not committed yet.
PoolVisibleWhileAnotherInFlight ==
    /\ \E c \in campaigns :
          c.available_coupons = 2 /\ Cardinality(CouponsOf(c.id)) = 2
    /\ \E p \in Callers : pc[p] = "create_commit" /\ tx[p].coupons # {}

\* the campaign identifier the CreateCampaign call of caller slot p has drawn
\* from the sequence by the end of this step (0: none)
DrawnId(p) ==
    IF pc[p] = "idle" THEN (IF idSeq' # idSeq THEN idSeq' ELSE 0)
    ELSE campaign[p].id

\* what a CreateCampaign call that ends without success in this step leaves
\* behind: the committed tables as they were, nothing in a transaction, no
\* row under the identifier the call drew
LeavesNothing(p) ==
    /\ campaigns' = campaigns
    /\ coupons' = coupons
    /\ tx'[p] = NoTx
    /\ \A c \in campaigns' : c.id # DrawnId(p)
    /\ \A r \in coupons' : r.campaign_id # DrawnId(p)

\* C7 (Creation atomicity) as claimed: a CreateCampaign call that ends
\* without success, at whichever step, leaves no campaign row and no coupon
\* row of the attempt, and the call returns an Internal error.
CreationAtomicity ==
    [][ \A p \in Callers :
           (Ends(p, "CreateCampaign") /\ out'[p].err # "OK") =>
               LeavesNothing(p) /\ out'[p].err = "Internal"
      ]_vars

\* The two halves of C7 apart: every unsuccessful end leaves nothing behind,
\* and the only end that is not an Internal error is the panic of
\* make([]string, 0, n) on a negative count.
CreationLeavesNothing ==
    [][ \A p \in Callers :
           (Ends(p, "CreateCampaign") /\ out'[p].err # "OK") =>
               /\ LeavesNothing(p)
               /\ \/ out'[p].err = "Internal"
                  \/ out'[p].err = "Panic" /\ req'[p].available_coupons < 0
      ]_vars

\* an IssueCoupon call of caller slot p that has selected a coupon ends
\* without success in this step
FailsAfterSelecting(p) ==
    /\ Ends(p, "IssueCoupon")
    /\ couponCode[p] # NoCode
    /\ out'[p].err # "OK"

\* after this step coupon code is available, locked by nobody and among the
\* rows the selection of a new IssueCoupon call on campaign id may return
FreeAgain(p, id, code) ==
    /\ \E r \in coupons' : r.code = code /\ r.status = "available"
    /\ \A q \in Callers : code \notin tx'[q].locked
    /\ code \in ReserveAvailableCoupon(p, id)'

\* C8 (Issuance rollback) as claimed: when an IssueCoupon call that has
\* selected a coupon ends without success (the mark fails, the commit fails,
\* or the context was cancelled), the caller gets an error and the selected
\* coupon is available, unlocked and claimable by a later IssueCoupon call.
IssuanceRollbackAsClaimed ==
    [][ \A p \in Callers :
           FailsAfterSelecting(p) =>
               /\ out'[p].err = "Internal"
               /\ FreeAgain(p, req[p].campaign_id, couponCode[p])
      ]_vars

\* C8 amended: such a call returns an Internal error, leaves the coupon rows
\* as they are and keeps no transaction and no lock.  If its context was not
\* cancelled, the selected coupon is available, unlocked and claimable when
\* the call ends.  If it was, the rollback came with the cancellation, and by
\* the time the call ends the coupon is either free in that same way or has
\* been selected (locked, or already issued) by another call in between.
IssuanceRollback ==
    [][ \A p \in Callers :
           FailsAfterSelecting(p) =>
               /\ out'[p].err = "Internal"
               /\ coupons' = coupons
               /\ tx'[p] = NoTx
               /\ \/ FreeAgain(p, req[p].campaign_id, couponCode[p])
                  \/ /\ ctxDone[p]
                     /\ \/ \E q \in Callers \ {p} :
                              /\ couponCode[p] \in tx'[q].locked
                              /\ couponCode[q] = couponCode[p]
                        \/ /\ <<req[p].campaign_id, couponCode[p]>>
                                  \in DOMAIN handedOut'
                           /\ \E r \in coupons' :
                                 r.code = couponCode[p] /\ r.status = "issued"
      ]_vars

\* C8 witness: an IssueCoupon call that had selected and marked a coupon has
\* failed at commit; every coupon of its campaign is available and no row
\* is locked.
IssueFailedAtCommit ==
    \E p \in Callers :
        /\ pc[p] = "done"
        /\ req[p].op = "IssueCoupon"
        /\ out[p].err = "Internal"
        /\ out[p].msg = "failed to commit transaction"
        /\ InStatus(req[p].campaign_id, "available") # {}
        /\ InStatus(req[p].campaign_id, "issued") = {}
        /\ \A q \in Callers : tx[q].locked = {}

\* C9 (Not-started guard): an IssueCoupon call whose lookup finds a campaign
\* with start_date later than now returns FailedPrecondition, begins no
\* transaction, takes no row lock and leaves every campaign and coupon row
\* unchanged.
NotStartedGuard ==
    [][ \A p \in Callers :
           ( /\ Starts(p, "IssueCoupon")
             /\ faults' = faults
             /\ \E c \in campaigns :
                   c.id = req'[p].campaign_id /\ now < c.start_date ) =>
               /\ pc'[p] = "done"
               /\ out'[p].err = "FailedPrecondition"
               /\ tx' = tx
               /\ campaigns' = campaigns
               /\ coupons' = coupons
               /\ attempts' = attempts
      ]_vars

\* C9 witness: an IssueCoupon call on a committed campaign that has coupons
\* available and has not started has been answered FailedPrecondition.
RefusedBeforeStart ==
    \E p \in Callers :
        /\ pc[p] = "done"
        /\ req[p].op = "IssueCoupon"
        /\ out[p].err = "FailedPrecondition"
        /\ \E c \in campaigns :
              /\ c.id = req[p].campaign_id
              /\ now < c.start_date
              /\ InStatus(c.id, "available") # {}

\* C10 (Unknown campaign): an IssueCoupon or GetCampaign call whose lookup
\* runs while no campaign row with the requested id is committed returns
\* NotFound and changes nothing: no row, no transaction, no lock, no
\* sequence value.
UnknownCampaign ==
    [][ \A p \in Callers :
           ( /\ Starts(p, "IssueCoupon") \/ Starts(p, "GetCampaign")
             /\ faults' = faults
             /\ \A c \in campaigns : c.id # req'[p].campaign_id ) =>
               /\ pc'[p] = "done"
               /\ out'[p].err = "NotFound"
               /\ out'[p].codes = <<>>
               /\ tx' = tx
               /\ campaigns' = campaigns
               /\ coupons' = coupons
               /\ idSeq' = idSeq
               /\ history' = history
      ]_vars

\* C10 witness: while a campaign is committed, an IssueCoupon call on an id
\* without a campaign row has been answered NotFound.
AnsweredNotFound ==
    /\ campaigns # {}
    /\ \E p \in Callers :
          /\ pc[p] = "done"
          /\ req[p].op = "IssueCoupon"
          /\ out[p].err = "NotFound"
          /\ GetCampaignRow(req[p].campaign_id) = {}

\* the Available rows of campaign id that no transaction other than p's holds
\* a lock on
Unlocked(p, id) ==
    { r \in InStatus(id, "available") : r.code \notin LockedByOthers(p) }

\* C11 (Skip-on-contention): a reservation whose turn it is can always take
\* its step, whatever rows other transactions have locked; and when, at the
\* moment it selects, its campaign has an Available coupon that no other
\* transaction has locked, the statement, unless the store fails it, selects
\* and locks such a coupon: the call does not end with ResourceExhausted.
SkipOnContention ==
    /\ [](\A p \in Callers :
            (pc[p] = "issue_reserve" /\ Quiet) => ENABLED IssueReserve(p))
    /\ [][\A p \in Callers :
            (/\ pc[p] = "issue_reserve"
             /\ pc'[p] # "issue_reserve"
             /\ tx[p].open
             /\ faults' = faults
             /\ Unlocked(p, req[p].campaign_id) # {})
            => /\ pc'[p] = "issue_mark"
               /\ couponCode'[p] \in
                      { r.code : r \in Unlocked(p, req[p].campaign_id) }
               /\ couponCode'[p] \in tx'[p].locked]_vars

\* C11 witness: two reservations on one campaign are in flight with
\* different coupons; the one that selected second passed over the row the
\* other holds.
SkippedALockedRow ==
    \E p, q \in Callers :
        /\ p # q
        /\ tx[p].open /\ tx[q].open
        /\ pc[p] = "issue_commit"
        /\ pc[q] = "issue_mark"
        /\ req[p].campaign_id = req[q].campaign_id
        /\ couponCode[p] # couponCode[q]
        /\ couponCode[p] \in tx[p].locked
        /\ couponCode[q] \in tx[q].locked

\* no IssueCoupon call on campaign id is running or waiting to be answered
NoIssueInFlight(id) ==
    \A q \in Callers :
        ~(req[q].op = "IssueCoupon" /\ req[q].campaign_id = id)

\* the elements of a sequence
Range(seq) == { seq[k] : k \in DOMAIN seq }

\* the codes that successful IssueCoupon calls on campaign id returned
Returned(id) == { x[2] : x \in { y \in DOMAIN handedOut : y[1] = id } }

\* C12 (Quiescent consistency): a GetCampaign that reads the issued codes of
\* a campaign when every IssueCoupon call on it has returned reports a list
\* without a repeated code, every code of which belongs to the campaign's
\* pool, whose set of codes is the set of codes the successful IssueCoupon
\* calls returned and whose length is the number of those calls.
QuiescentConsistency ==
    [][\A p \in Callers :
          (/\ Ends(p, "GetCampaign")
           /\ out'[p].err = "OK"
           /\ NoIssueInFlight(req[p].campaign_id))
          => LET id    == req[p].campaign_id
                 codes == out'[p].codes
             IN  /\ \A j, k \in DOMAIN codes : j # k => codes[j] # codes[k]
                 /\ Range(codes) \subseteq { r.code : r \in CouponsOf(id) }
                 /\ Range(codes) = Returned(id)
                 /\ Len(codes) = Succeeded(id)]_vars

\* C12 witness: with no IssueCoupon call left on the campaign, GetCampaign
\* answers with the two codes that two successful calls returned.
TwoCodesReportedAtRest ==
    \E p \in Callers :
        /\ pc[p] = "done"
        /\ req[p].op = "GetCampaign"
        /\ out[p].err = "OK"
        /\ NoIssueInFlight(req[p].campaign_id)
        /\ Len(out[p].codes) = 2
        /\ Succeeded(req[p].campaign_id) = 2

\* issued_at of the committed coupon row with the given code
IssuedAtOf(code) == (CHOOSE r \in coupons : r.code = code).issued_at

\* C13 (GetCampaign): GetCampaign on a campaign that exists is answered, unless
\* the store fails a statement, with the campaign's id, available_coupons and
\* start_date as its row holds them, and with exactly the codes of that
\* campaign's coupons whose committed status is issued, each once, in an
\* order of non-decreasing issued_at.
GetCampaignResult ==
    [][\A p \in Callers :
          /\ (/\ Ends(p, "GetCampaign")
               /\ faults' = faults
               /\ GetCampaignRow(req'[p].campaign_id) # {})
              => out'[p].err = "OK"
          /\ (Ends(p, "GetCampaign") /\ out'[p].err = "OK")
              => LET id    == req[p].campaign_id
                     codes == out'[p].codes
                 IN  /\ \E c \in campaigns :
                           /\ c.id = id
                           /\ out'[p].body.id = id
                           /\ out'[p].body.available_coupons =
                                  c.available_coupons
                           /\ out'[p].body.start_date = c.start_date
                     /\ \A j, k \in DOMAIN codes :
                           j # k => codes[j] # codes[k]
                     /\ Range(codes) =
                            { r.code : r \in InStatus(id, "issued") }
                     /\ \A j, k \in DOMAIN codes :
                           j < k => IssuedAtOf(codes[j]) <= IssuedAtOf(codes[k])
      ]_vars

\* C13 witness: GetCampaign answers with two codes that were issued at
\* different times, the earlier one first.
TwoCodesInIssueOrder ==
    \E p \in Callers :
        /\ pc[p] = "done"
        /\ req[p].op = "GetCampaign"
        /\ out[p].err = "OK"
        /\ Len(out[p].codes) = 2
        /\ IssuedAtOf(out[p].codes[1]) < IssuedAtOf(out[p].codes[2])

\* every row of table coupons, committed or inserted by an open transaction
AllCouponRows == coupons \cup UNION { tx[p].coupons : p \in Callers }

\* C14 (Global code uniqueness): in every reachable state no two coupon rows,
\* of one campaign or of two, committed or not, have the same code.
GlobalCodeUniqueness ==
    \A r1, r2 \in AllCouponRows : r1.code = r2.code => r1 = r2

\* C14 witness: with a pool already stored and nothing failing in the store,
\* the creation of a campaign of one coupon is refused because its code is
\* the code of a stored row.
DuplicateCodeRefused ==
    \E p \in Callers :
        /\ pc[p] = "done"
        /\ req[p].op = "CreateCampaign"
        /\ req[p].available_coupons = 1
        /\ out[p].err = "Internal"
        /\ out[p].msg = "failed to store coupons in DB"
        /\ faults = 0
        /\ coupons # {}

\* C15 (issuedAt invariant), as claimed: a coupon row has a value in issued_at
\* if and only if its status is issued; an available row has none.  The
\* INSERT of insertCouponBatch leaves issued_at to its column default NOW(),
\* so every available row has one.
IssuedAtIffIssued ==
    \A r \in AllCouponRows : (r.issued_at # NullTime) <=> (r.status = "issued")

\* C16 (non-positive count), as claimed: a CreateCampaign call whose
\* availableCoupons is zero or negative ends, when nothing has failed in the
\* store, with a validation error (InvalidArgument) and leaves no campaign
\* row and no coupon row.  The
\* handler has no such check: a zero count commits an empty campaign and
\* answers OK, a negative count panics in make.
NonPositiveCountRejected ==
    [][\A p \in Callers :
          (/\ Ends(p, "CreateCampaign")
           /\ req'[p].available_coupons <= 0
           /\ faults' = 0)
          => /\ out'[p].err = "InvalidArgument"
             /\ campaigns' = campaigns
             /\ coupons' = coupons]_vars

\* C17 (Code format): whatever the campaign id, the index and the 16-byte
\* block the cipher produced, the code has exactly 10 symbols: the first a
\* digit (pool index 0..9), the second one of the 28 syllables (pool index
\* 10..37), the other eight any of the 38 symbols of the pool; no symbol
\* index is out of range.
CodeFormat ==
    gen.code # <<>>
    => /\ Len(gen.code) = 2 + bodyLen
       /\ Len(gen.code) = 10
       /\ gen.code[1] \in 0..(digits - 1)
       /\ gen.code[2] \in digits..(base - 1)
       /\ \A k \in 3..Len(gen.code) : gen.code[k] \in 0..(base - 1)

\* C17 witness: the code of the block whose bytes are all 255 has been
\* formed (the largest values of cipher[0], cipher[1] and cipher[8:]).
CodeOfAllOnesBlock ==
    /\ gen.ct = Block(255, 255, <<255, 255, 255, 255, 255, 255, 255, 255>>)
    /\ Len(gen.code) = 10

CreateCampaignPostcondition ==
    [][\A p \in Callers :
          (/\ Ends(p, "CreateCampaign")
           /\ out'[p].err = "OK"
           /\ req[p].available_coupons > 0)
          => LET n    == req[p].available_coupons
                 id   == out'[p].body.id
                 rows == { r \in coupons' : r.campaign_id = id }
             IN  /\ id \in 1..idSeq
                 /\ id \notin { c.id : c \in campaigns }
                 /\ out'[p].body.available_coupons = n
                 /\ out'[p].body.start_date = req[p].start_date
                 /\ out'[p].codes = <<>>
                 /\ campaigns' = campaigns \cup
                        { [id |-> id, available_coupons |-> n,
                           start_date |-> req[p].start_date] }
                 /\ { r.code : r \in rows } =
                        { generateSecureCoupon(cipher[id], W64(id), W64(i)) :
                             i \in 0..(n - 1) }
                 /\ Cardinality(rows) = n
                 /\ \A r \in rows : r.status = "available"
                 /\ coupons' = coupons \cup rows
                 /\ rows \cap coupons = {}]_vars

\* C19 witness: a CreateCampaign call for two coupons has succeeded and the
\* two rows of its pool are stored.
CampaignOfTwoCreated ==
    \E p \in Callers :
        /\ pc[p] = "done"
        /\ req[p].op = "CreateCampaign"
        /\ out[p].err = "OK"
        /\ out[p].body.available_coupons = 2
        /\ Cardinality(CouponsOf(out[p].body.id)) = 2

\* code, owner and creation time of the rows of campaign id among rows
PoolOf(rows, id) ==
    { <<r.code, r.campaign_id, r.created_at>> :
         r \in { x \in rows : x.campaign_id = id } }

\* C20 (Campaign and pool immutability): no step changes the id,
\* available_coupons or start_date of a stored campaign or deletes it, adds a
\* coupon to it or deletes one of its coupons, or changes the code or the
\* campaign_id of a stored coupon.
CampaignAndPoolImmutable ==
    [][/\ campaigns \subseteq campaigns'
       /\ \A c1, c2 \in campaigns' : c1.id = c2.id => c1 = c2
       /\ \A c \in campaigns : PoolOf(coupons', c.id) = PoolOf(coupons, c.id)
       /\ \A r \in coupons :
             \E r2 \in coupons' :
                 /\ r2.code = r.code
                 /\ r2.campaign_id = r.campaign_id
                 /\ r2.created_at = r.created_at]_vars

\* C20 witness: two campaigns are stored, each with its pool, and a coupon of
\* one of them has been issued.
TwoPoolsOneCouponIssued ==
    /\ Cardinality(campaigns) = 2
    /\ \E r1, r2 \in coupons :
          /\ r1.campaign_id # r2.campaign_id
          /\ r1.status = "issued"

\* C21 (Transaction-scoped locking): a caller slot whose call has returned
\* (the response is on its way, or the slot is idle again) has no open
\* transaction, no uncommitted row or update and no row lock, whichever way
\* the call returned.
TransactionScopedLocking ==
    \A p \in Callers :
        pc[p] \in {"idle", "done"}
        => /\ ~tx[p].open
           /\ tx[p].locked = {}
           /\ tx[p] = NoTx

\* C21 witness: an IssueCoupon call that had selected and locked a coupon
\* has returned with an error from the UPDATE, and a CreateCampaign or
\* IssueCoupon call of the other caller is still in its transaction.
ReturnedAfterLocking ==
    \E p, q \in Callers :
        /\ pc[p] = "done"
        /\ req[p].op = "IssueCoupon"
        /\ out[p].msg = "failed to mark coupon as issued"
        /\ tx[p] = NoTx
        /\ q # p
        /\ tx[q].open

\* C22 (Start-time gate): an IssueCoupon call whose lookup finds the campaign,
\* and whose BeginTxx does not fail, goes on to the reservation if and only
\* if now >= start_date (a call at exactly start_date goes on) and is
\* answered FailedPrecondition otherwise; and, the clock never going back, a
\* campaign that has let one call through to the reservation never answers
\* FailedPrecondition again.
StartTimeGate ==
    [][\A p \in Callers :
          /\ (Starts(p, "IssueCoupon") /\ faults' = faults)
              => \A c \in GetCampaignRow(req'[p].campaign_id) :
                    /\ (pc'[p] = "issue_reserve") <=> (now >= c.start_date)
                    /\ (out'[p].err = "FailedPrecondition")
                          <=> (now < c.start_date)
          /\ (/\ Ends(p, "IssueCoupon")
               /\ req'[p].campaign_id \in DOMAIN attempts
               /\ attempts[req'[p].campaign_id] > 0)
              => out'[p].err # "FailedPrecondition"
          /\ now' >= now]_vars

\* C22 witness: a call is at its reservation on a campaign whose start_date,
\* later than time 0, is exactly now.
AttemptAtStartDate ==
    \E p \in Callers :
        /\ pc[p] = "issue_reserve"
        /\ campaign[p].start_date = now
        /\ now > 0

\* C24 (Outcome observation): every IssueCoupon call has recorded exactly one
\* outcome when it returns, on every return path; the outcome is success
\* exactly when the call's transaction committed and a code is returned (the
\* coupon of that code is issued in committed state), and failed on every
\* error path.
OutcomeRecordedOnce ==
    [][\A p \in Callers :
          Ends(p, "IssueCoupon")
          => /\ Len(out'[p].recorded) = 1
             /\ out'[p].recorded[1] \in {"success", "failed"}
             /\ (out'[p].recorded[1] = "success")
                   <=> /\ out'[p].err = "OK"
                       /\ Len(out'[p].codes) = 1
                       /\ tx[p].open
                       /\ \E r \in coupons' \ coupons :
                             /\ r.code = out'[p].codes[1]
                             /\ r.status = "issued"
             /\ (out'[p].recorded[1] = "failed") <=> (out'[p].err # "OK")
      ]_vars

\* C24 witness: an IssueCoupon call whose commit failed has returned, with
\* the one outcome failed recorded.
FailedOutcomeRecorded ==
    \E p \in Callers :
        /\ pc[p] = "done"
        /\ req[p].op = "IssueCoupon"
        /\ out[p].msg = "failed to commit transaction"
        /\ out[p].recorded = <<"failed">>

\* the errors of an IssueCoupon call in the order of its checks
IssueErrors == {"NotFound", "FailedPrecondition", "ResourceExhausted", "Internal"}

\* C25 (Error precedence): an IssueCoupon call that the store does not fail
\* is answered NotFound exactly when its lookup finds no campaign, whatever
\* the clock; FailedPrecondition exactly when the campaign exists and has not
\* started, whatever is in its pool (nothing, or nothing available); and
\* ResourceExhausted only for a campaign that exists and has started.  An
\* error is always one of these three or Internal, and a call that a storage
\* failure or a cancelled context ends is answered Internal.
ErrorPrecedence ==
    [][\A p \in Callers :
          /\ (Starts(p, "IssueCoupon") /\ faults' = faults)
              => LET rows == { c \in campaigns : c.id = req'[p].campaign_id }
                 IN  /\ (rows = {})
                         <=> (pc'[p] = "done" /\ out'[p].err = "NotFound")
                     /\ (\E c \in rows : now < c.start_date)
                         <=> (/\ pc'[p] = "done"
                              /\ out'[p].err = "FailedPrecondition")
          /\ Ends(p, "IssueCoupon")
              => /\ out'[p].err \in IssueErrors \cup {"OK"}
                 /\ out'[p].err = "ResourceExhausted"
                    => \E c \in campaigns :
                          /\ c.id = req[p].campaign_id
                          /\ now >= c.start_date
                 /\ out'[p].err \in {"NotFound", "FailedPrecondition"}
                    => Starts(p, "IssueCoupon")
                 /\ (faults' # faults \/ (pc[p] # "idle" /\ ~tx[p].open))
                    => out'[p].err = "Internal"]_vars

\* C25 witness: an IssueCoupon call on a stored campaign that has not started
\* and whose pool has no coupon at all has been answered FailedPrecondition.
EmptyPoolRefusedBeforeStart ==
    \E p \in Callers :
        /\ pc[p] = "done"
        /\ req[p].op = "IssueCoupon"
        /\ out[p].err = "FailedPrecondition"
        /\ \E c \in campaigns : c.id = req[p].campaign_id
        /\ CouponsOf(req[p].campaign_id) = {}

\* C26 (Oldest-first selection): the coupon a reservation selects is a row of
\* the requested campaign, available, not locked by another transaction,
\* and no row of that campaign with these three properties has an earlier
\* created_at.
OldestFirstSelection ==
    [][\A p \in Callers :
          (pc[p] = "issue_reserve" /\ pc'[p] = "issue_mark")
          => \E r \in coupons :
                /\ r.code = couponCode'[p]
                /\ r.campaign_id = req[p].campaign_id
                /\ r.status = "available"
                /\ r.code \notin LockedByOthers(p)
                /\ \A y \in Unlocked(p, req[p].campaign_id) :
                      r.created_at <= y.created_at]_vars

\* C26 witness: a reservation has selected a coupon of its campaign while an
\* available coupon of another campaign, created earlier, is in the store.
SelectedWithinCampaign ==
    \E p \in Callers :
        /\ pc[p] = "issue_mark"
        /\ tx[p].open
        /\ \E r, o \in coupons :
              /\ r.code = couponCode[p]
              /\ r.campaign_id = req[p].campaign_id
              /\ o.campaign_id # r.campaign_id
              /\ o.status = "available"
              /\ o.created_at < r.created_at

\* C27 (Exhaustion is genuine and permanent), as claimed: an IssueCoupon call
\* that began after a call on the same campaign had been answered
\* ResourceExhausted never succeeds.  SKIP LOCKED answers "no rows" also
\* while the last available rows are only locked by transactions in flight;
\* when one of those rolls back its coupon is available again and a later
\* call gets it.
ExhaustionPermanent ==
    [][\A p \in Callers :
          (Ends(p, "IssueCoupon") /\ afterExhaustion[p])
          => out'[p].err # "OK"]_vars

\* C27, the first half as claimed: a call is answered ResourceExhausted only
\* when no coupon of the campaign is available in committed state.
ExhaustionGenuine ==
    [][\A p \in Callers :
          (Ends(p, "IssueCoupon") /\ out'[p].err = "ResourceExhausted")
          => InStatus(req[p].campaign_id, "available") = {}]_vars

\* C28 (Effect of one IssueCoupon): the step in which an IssueCoupon call on
\* campaign c returns changes, when the call succeeds, exactly one committed
\* coupon row: a row of campaign c, available before, whose status becomes
\* issued and whose issued_at is set, every other field and every other row
\* staying as it was; the response carries that row's code and campaign id
\* c, and the row is issued in committed state at that moment.  When the call
\* fails, no committed row changes.  No step of an IssueCoupon call changes
\* a campaign row.
IssueCouponEffect ==
    [][\A p \in Callers :
          /\ (Ends(p, "IssueCoupon") /\ out'[p].err = "OK")
              => \E r \in coupons :
                    /\ r.campaign_id = req[p].campaign_id
                    /\ r.status = "available"
                    /\ out'[p].codes = <<r.code>>
                    /\ out'[p].body.id = req[p].campaign_id
                    /\ \E t \in 0..MaxTime :
                          coupons' = (coupons \ {r}) \cup
                              { [r EXCEPT !.status = "issued",
                                          !.issued_at = t] }
                    /\ \E r2 \in coupons' :
                          r2.code = r.code /\ r2.status = "issued"
          /\ (Ends(p, "IssueCoupon") /\ out'[p].err # "OK")
              => coupons' = coupons
          /\ (req[p].op = "IssueCoupon" /\ pc'[p] # pc[p])
              => campaigns' = campaigns
          /\ (req[p].op = "IssueCoupon" /\ pc'[p] # pc[p] /\ pc'[p] # "done")
              => coupons' = coupons
          /\ Starts(p, "IssueCoupon")
              => campaigns' = campaigns /\ coupons' = coupons]_vars

\* C28 witness: an IssueCoupon call has succeeded on a campaign one coupon of
\* which is still available, while a coupon of another campaign is in the
\* store as well.
OneRowOfManyIssued ==
    \E p \in Callers :
        /\ pc[p] = "done"
        /\ req[p].op = "IssueCoupon"
        /\ out[p].err = "OK"
        /\ InStatus(req[p].campaign_id, "available") # {}
        /\ \E o \in coupons : o.campaign_id # req[p].campaign_id

SequencePacking ==
    gen.packed # <<>>
    => LET a == gen.packed[1]
           b == gen.packed[2]
       IN  /\ \A x \in {a, b} :
                 /\ \A k \in 1..4 : x.seq[k] = x.campaignID[k + 4]
                 /\ \A k \in 5..8 : x.seq[k] = x.couponIndex[k]
           /\ (a.campaignID # b.campaignID \/ a.couponIndex # b.couponIndex)
              => \E k \in 1..8 : a.seq[k] # b.seq[k]

\* C23: within one campaign the codes generated for distinct indices are
\* distinct: generateSecureCoupon(c, i) differs from generateSecureCoupon(c, j)
\* whenever i differs from j.
DistinctWithinCampaign ==
    gen.other # <<>>
    => (gen.other.couponIndex # gen.couponIndex => gen.other.code # gen.code)

\* C31: generateCampaignKey returns a 16-byte key that depends only on the
\* campaign identifier, and distinct campaign identifiers yield distinct keys.
KeyDerivationReversible ==
    gen.keys # <<>>
    => LET a == gen.keys[1]
           b == gen.keys[2]
       IN  /\ Len(a.key) = 16 /\ Len(b.key) = 16
           /\ a.campaignID = b.campaignID => a.key = b.key
           /\ a.campaignID # b.campaignID => a.key # b.key

\* The part of C31 the derivation does satisfy: a 16-byte key that is a
\* function of the campaign identifier.
KeyDerivationDeterministic ==
    gen.keys # <<>>
    => LET a == gen.keys[1]
           b == gen.keys[2]
       IN  /\ Len(a.key) = 16 /\ Len(b.key) = 16
           /\ a.campaignID = b.campaignID => a.key = b.key

RECURSIVE MulAdd(_, _, _, _)
\* bytes * m + carry as a big-endian byte string, from byte k down to the
\* first; a carry out of the first byte makes the result one byte longer
MulAdd(bytes, m, carry, k) ==
    IF k = 0 THEN (IF carry = 0 THEN <<>> ELSE <<carry>>)
    ELSE LET cur == bytes[k] * m + carry
         IN  Append(MulAdd(bytes, m, cur \div 256, k - 1), cur % 256)

RECURSIVE Horner(_, _, _)
\* (...((acc * 38 + ds[k]) * 38 + ds[k+1]) ... ) * 38 + ds[Len(ds)]
Horner(acc, ds, k) ==
    IF k > Len(ds) THEN acc
    ELSE Horner(MulAdd(acc, base, ds[k], Len(acc)), ds, k + 1)

RECURSIVE QuotientBy(_, _)
\* v div 38^n
QuotientBy(v, n) ==
    IF n = 0 THEN v ELSE QuotientBy(DivMod(v, base, 1, 0).q, n - 1)

RECURSIVE MultipleOf(_, _)
\* 38^n divides x
MultipleOf(x, n) ==
    n = 0 \/ (DivMod(x, base, 1, 0).r = 0
              /\ MultipleOf(DivMod(x, base, 1, 0).q, n - 1))

\* a < b for big-endian byte strings of one length
Less(a, b) ==
    \E k \in 1..Len(a) : a[k] < b[k] /\ \A j \in 1..(k - 1) : a[j] = b[j]

RECURSIVE Minus(_, _, _, _)
\* a - b for a >= b, from byte k down to the first
Minus(a, b, borrow, k) ==
    IF k = 0 THEN <<>>
    ELSE LET cur == a[k] - b[k] - borrow
         IN  Append(Minus(a, b, IF cur < 0 THEN 1 ELSE 0, k - 1),
                    (cur + 256) % 256)

\* a and b are congruent modulo 38^8
Congruent(a, b) ==
    IF Less(a, b) THEN MultipleOf(Minus(b, a, 0, Len(a)), bodyLen)
    ELSE MultipleOf(Minus(a, b, 0, Len(a)), bodyLen)

\* C32 (Body encoding): the 8 body symbols are the base-38 digits of
\* v mod 38^8, most significant first: each is below 38, and
\* (v div 38^8) * 38^8 + body[0] * 38^7 + ... + body[7] is v again, so that
\* body[7] is v mod 38; two values of v give the same body exactly when they
\* are congruent modulo 38^8.
BodyEncoding ==
    gen.bodies # <<>>
    => LET a == gen.bodies[1]
           b == gen.bodies[2]
       IN  /\ \A x \in {a, b} :
                 /\ Len(x.body) = bodyLen
                 /\ \A k \in 1..Len(x.body) : x.body[k] \in 0..(base - 1)
                 /\ Horner(QuotientBy(x.v, bodyLen), x.body, 1) = x.v
           /\ (a.body = b.body) <=> Congruent(a.v, b.v)

\* C32 witness: the body has been formed from 0 and from 38^8, two different
\* values of v with one body.
SameBodyForCongruentValues ==
    /\ gen.bodies # <<>>
    /\ gen.bodies[1].v = <<0, 0, 0, 0, 0, 0, 0, 0>>
    /\ gen.bodies[2].v = <<0, 0, 3, 244, 76, 155, 33, 0>>
    /\ gen.bodies[1].body = gen.bodies[2].body

\* number of batches a list of n codes needs: ceil(n / batchSize)
BatchesNeeded(n) == (n + batchSize - 1) \div batchSize

\* the batches inserted so far cover couponCodes[0:to] once and in order,
\* each with at least one and at most batchSize codes
InOrderOnce(chunks, n) ==
    \A k \in DOMAIN chunks :
        /\ chunks[k].from = (IF k = 1 THEN 0 ELSE chunks[k - 1].to)
        /\ chunks[k].from < chunks[k].to
        /\ chunks[k].to - chunks[k].from <= batchSize
        /\ chunks[k].to <= n

\* C33 (Chunked bulk insert): CreatePregeneratedCoupons issues
\* ceil(n / 1000) inserts of at most 1000 codes each, every code exactly once
\* and in order, inside the caller's transaction; it stops at the first
\* failing batch and returns an error; no batch is visible unless the
\* whole transaction commits, and then all of them are.
ChunkedBulkInsert ==
    /\ [](gen.bulk # <<>>
          => LET b == gen.bulk
             IN  /\ InOrderOnce(b.chunks, b.n)
                 /\ Len(b.chunks) <= BatchesNeeded(b.n)
                 /\ (b.pc = "returned" /\ ~b.err)
                    => /\ Len(b.chunks) = BatchesNeeded(b.n)
                       /\ b.n > 0 => b.chunks[Len(b.chunks)].to = b.n
                 /\ (b.pc = "returned" /\ b.err)
                    => Len(b.chunks) < BatchesNeeded(b.n)
                 /\ b.tx # "committed" => b.visible = <<>>
                 /\ b.tx = "committed"
                    => /\ b.visible = b.chunks
                       /\ Len(b.visible) = BatchesNeeded(b.n)
                       /\ ~b.err)
    /\ [][(gen.bulk # <<>> /\ gen.bulk.err)
           => (gen'.bulk # <<>> /\ gen'.bulk.chunks = gen.bulk.chunks)]_vars

\* C33 witness: a list of 2001 codes went in as three batches, the last of
\* one code, and the transaction committed.
ThreeBatchesCommitted ==
    /\ gen.bulk # <<>>
    /\ gen.bulk.n = 2 * batchSize + 1
    /\ gen.bulk.tx = "committed"
    /\ Len(gen.bulk.visible) = 3
    /\ gen.bulk.visible[3].to - gen.bulk.visible[3].from = 1

\* a code generated for the campaign caller p is creating equals another code
\* of the same pool, or the code of a committed coupon
Collides(p) ==
    LET codes == couponCodes[p]
    IN  \/ \E j, k \in DOMAIN codes : j # k /\ codes[j] = codes[k]
        \/ \E k \in DOMAIN codes : codes[k] \in { r.code : r \in coupons }

\* C34 (Collision handling at creation): a CreateCampaign call for which a
\* generated code equals another code of its pool or the code of an existing
\* coupon returns an Internal error, with its transaction rolled back: the
\* step on which it returns adds no campaign row and no coupon row and
\* changes no existing one.
CollisionHandling ==
    [][\A p \in Callers :
          (/\ req[p].op = "CreateCampaign"
           /\ pc[p] # "done"
           /\ pc'[p] = "done"
           /\ Collides(p))
          => /\ out'[p].err = "Internal"
             /\ campaigns' = campaigns
             /\ coupons' = coupons
             /\ ~tx'[p].open
             /\ tx'[p].campaigns = {}
             /\ tx'[p].coupons = {}]_vars

\* C34 witness: with nothing stored, nothing failing in the store and a
\* cipher that gives indices 0 and 1 one code, the first creation, of a pool
\* of two coupons, is refused at the insert and has left nothing.
PoolWithRepeatedCodeRefused ==
    \E p \in Callers :
        /\ pc[p] = "done"
        /\ req[p].op = "CreateCampaign"
        /\ req[p].available_coupons = 2
        /\ out[p].err = "Internal"
        /\ out[p].msg = "failed to store coupons in DB"
        /\ idSeq = 1
        /\ cipher[1] = 1
        /\ faults = 0
        /\ coupons = {}
        /\ campaigns = {}

\* C35: within IssueCoupon, once the reservation has returned a code, the
\* UPDATE of the mark step, executed in the same transaction, affects exactly
\* one row: zero rows affected ("coupon not found or already issued") does
\* not happen, whatever other IssueCoupon and CreateCampaign calls do.
MarkUpdatesOneRow ==
    \A p \in Callers :
        (pc[p] = "issue_mark" /\ tx[p].open)
        => /\ couponCode[p] \in tx[p].locked
           /\ couponCode[p] \notin LockedByOthers(p)
           /\ Cardinality(MarkCouponAsIssued(p, couponCode[p])) = 1

\* C35 witness: one caller has marked its coupon and not yet committed, while
\* another is about to mark a coupon of the same campaign.
MarkedWhileAnotherMarks ==
    \E p, q \in Callers :
        /\ p # q
        /\ pc[p] = "issue_commit"
        /\ Cardinality(tx[p].updates) = 1
        /\ pc[q] = "issue_mark"
        /\ tx[q].open
        /\ req[p].campaign_id = req[q].campaign_id

\* C36: the issued list only grows.  For one campaign, every code in the
\* list a GetCampaign call returned is in the list of every GetCampaign call
\* that is answered after it (every call that starts after the first has
\* returned is one), and the later list is at least as long.
IssuedListGrows ==
    \A id \in DOMAIN listed :
        \A j, k \in DOMAIN listed[id] :
            j < k => /\ Range(listed[id][j]) \subseteq Range(listed[id][k])
                     /\ Len(listed[id][j]) <= Len(listed[id][k])

\* C36 witness: two GetCampaign calls on one campaign, the second with a
\* code the first did not have.
ListGrewBetweenCalls ==
    \E id \in DOMAIN listed :
        /\ Len(listed[id]) = 2
        /\ Len(listed[id][1]) < Len(listed[id][2])

\* s is a prefix of t
IsPrefix(s, t) == Len(s) <= Len(t) /\ SubSeq(t, 1, Len(s)) = s

\* the issued coupons of the campaign have pairwise different issued_at, so
\* ORDER BY issued_at leaves no choice
DistinctIssuedAt(id) ==
    \A r1, r2 \in InStatus(id, "issued") :
        r1.issued_at = r2.issued_at => r1 = r2

\* C37, as claimed: the issued list is append-only.  For one campaign, the
\* list a GetCampaign call returned is a prefix of the list of every later
\* GetCampaign call: of those that have returned, and of the list a call
\* reading the committed rows now returns (taken here only when no two
\* issued_at are equal).  issued_at is stamped by the mark step, before the
\* commit: a transaction that marked earlier and commits later puts its code
\* in front of codes already listed.
IssuedListAppendOnly ==
    \A id \in DOMAIN listed :
        \A j \in DOMAIN listed[id] :
            /\ \A k \in DOMAIN listed[id] :
                  j < k => IsPrefix(listed[id][j], listed[id][k])
            /\ DistinctIssuedAt(id)
               => \A later \in IssuedCodes(id) : IsPrefix(listed[id][j], later)

\* C38: all coupon rows created by one CreateCampaign call carry the same
\* created_at, the one timestamp CreatePregeneratedCoupons takes before its
\* first batch, whenever the batches are sent; ORDER BY created_at therefore
\* does not tell two coupons of one campaign apart.
OneCreatedAtPerCall ==
    gen.bulk # <<>>
    => /\ \A j, k \in DOMAIN gen.bulk.chunks :
             gen.bulk.chunks[j].created_at = gen.bulk.chunks[k].created_at
       /\ \A k \in DOMAIN gen.bulk.chunks :
             /\ gen.bulk.chunks[k].created_at = gen.bulk.created_at
             /\ gen.bulk.chunks[k].created_at <= gen.bulk.chunks[k].sent
       /\ \A j, k \in DOMAIN gen.bulk.visible :
             gen.bulk.visible[j].created_at = gen.bulk.visible[k].created_at

\* C38 witness: the clock moved between two batches of one call, and the
\* call committed.
BatchesSentAtDifferentTimes ==
    /\ gen.bulk # <<>>
    /\ gen.bulk.tx = "committed"
    /\ Len(gen.bulk.visible) >= 2
    /\ gen.bulk.visible[1].sent < gen.bulk.visible[2].sent

\* C38 in the service: in every state, the coupon rows of one campaign,
\* committed or not, have one created_at, and a reservation may return any
\* available row of the campaign that no other transaction has locked.
PoolCreatedAtUniform ==
    /\ \A r1, r2 \in AllCouponRows :
          r1.campaign_id = r2.campaign_id => r1.created_at = r2.created_at
    /\ \A p \in Callers : \A id \in 1..MaxCampaigns :
          ReserveAvailableCoupon(p, id) =
              { r.code : r \in { x \in VisibleCoupons(p) :
                                    /\ x.campaign_id = id
                                    /\ x.status = "available"
                                    /\ x.code \notin LockedByOthers(p) } }

====
